---- MODULE Spec2Model ----
(***************************************************************************)
(* State-machine model of res_speech_google.c: the Asterisk speech engine  *)
(* that bridges audio pushed by the host to a Google Speech gRPC duplex    *)
(* stream.  One ast_speech object, its google_speech_t (the Session), the  *)
(* process-wide google_engine configuration and the transport streams the  *)
(* Session opens are the state; each engine callback is one action.  The   *)
(* gRPC transport is the environment: results of Write/WritesDone/Finish   *)
(* and of credential/channel/stub construction are inputs, inbound result  *)
(* batches and the remote end-of-stream are environment actions.           *)
(***************************************************************************)
EXTENDS Integers, Sequences, FiniteSets, TLC

(* ------------------------------ bounds --------------------------------- *)
MaxCreates == 1      \* Sessions created over the whole run
MaxStreams == 2      \* streams opened over the whole run
MaxLog == 3          \* outbound calls (Write/WritesDone) logged per stream
MaxInbound == 1      \* result batches the remote may have in flight

(* ------------------------- values and domains -------------------------- *)
NULLSTR == "NULL"                       \* a NULL char*
Texts == {"", "hello", "hello world"}   \* transcripts the remote may send
FormatRates == {0, 16000}               \* ast_format_get_sample_rate(format)
DefaultRate == 16000
PlaceholderScore == 100
Kinds == {"session", "name", "key", "lang", "model", "channel", "stub",
          "context", "result"}

\* StreamingRecognizeResponse, reduced to what google_recog_write inspects:
\* results_size(), results(0).alternatives_size(), the transcript of
\* alternatives(0) and results(0).is_final(); and the confidence of
\* alternatives(0) in hundredths (0: not supplied), which the remote sends
\* and line 562 mentions.
Batches ==
    {[results |-> 0, alts |-> 0, transcript |-> "", final |-> FALSE,
      confidence |-> 0],
     [results |-> 1, alts |-> 0, transcript |-> "", final |-> FALSE,
      confidence |-> 0],
     [results |-> 1, alts |-> 1, transcript |-> "hello", final |-> FALSE,
      confidence |-> 0],
     [results |-> 1, alts |-> 1, transcript |-> "hello world", final |-> TRUE,
      confidence |-> 91],
     [results |-> 1, alts |-> 1, transcript |-> "", final |-> TRUE,
      confidence |-> 0]}

\* Contents of res_speech_google.conf: absent, or a [general] section.
NoCfgFile ==
    [present |-> FALSE, key |-> "", lang |-> "", model |-> "", punct |-> ""]

CfgFile ==
    [present |-> TRUE, key |-> "key.json", lang |-> "es-ES",
     model |-> "phone_call", punct |-> "yes"]

CfgFiles == {NoCfgFile, CfgFile}

VARIABLES
    engine,         \* static struct google_engine_t google_engine
    data,           \* speech->data != NULL
    gs,             \* *(google_speech_t*)speech->data
    state,          \* speech->state
    streams,        \* every stream opened so far, by handle
    live,           \* live allocations per kind of resource
    ncreate,        \* Sessions created so far
    last_is_final,  \* gs.last_result was stored from a batch with is_final
    errored,        \* a stream Write() of this Session has returned false
    pc,             \* "idle", or the blocking call the caller is inside
    op, ret, result, calls,  \* last callback, its return value, the
                             \* ast_speech_result of get(), transport calls
    got             \* the batch the last callback's Read() returned, if any

vars == <<engine, data, gs, state, streams, live, ncreate, last_is_final,
          errored, pc, op, ret, result, calls, got>>

(* ------------------------------ helpers -------------------------------- *)
\* Variant: only a null pointer counts as empty.
ast_strlen_zero_null(s) == s = NULLSTR

\* ast_strlen_zero(): a null pointer or a string of length 0.
ast_strlen_zero(s) == s = NULLSTR \/ s = ""

ast_true(s) == s \in {"yes", "true", "y", "t", "1", "on"}

NoSession ==
    [name |-> FALSE, speech_stub |-> FALSE, context |-> 0, stream |-> 0,
     last_result |-> NULLSTR, service_account_key_path |-> NULLSTR,
     language_code |-> NULLSTR, sample_rate_hertz |-> 0, model |-> NULLSTR,
     enable_automatic_punctuation |-> FALSE, channel_ptr |-> FALSE]

NoResult == [text |-> NULLSTR, score |-> 0]

\* No configuration request has been written on the stream.
NoRequest ==
    [encoding |-> "", sample_rate_hertz |-> 0, language_code |-> "",
     model |-> "", enable_automatic_punctuation |-> FALSE,
     interim_results |-> FALSE]

\* Lines 471-484: the StreamingRecognizeRequest start() builds from the
\* Session's fields; the model field is left unset ("") for "default".
ConfigRequest(g) ==
    [encoding |-> "LINEAR16",
     sample_rate_hertz |-> g.sample_rate_hertz,
     language_code |-> g.language_code,
     model |-> IF g.model \notin {NULLSTR, "", "default"} THEN g.model ELSE "",
     enable_automatic_punctuation |-> g.enable_automatic_punctuation,
     interim_results |-> TRUE]

\* The kinds of allocation a google_speech_t currently points at.
Held(g) ==
    {"session"}
    \cup (IF g.name THEN {"name"} ELSE {})
    \cup (IF g.service_account_key_path # NULLSTR THEN {"key"} ELSE {})
    \cup (IF g.language_code # NULLSTR THEN {"lang"} ELSE {})
    \cup (IF g.model # NULLSTR THEN {"model"} ELSE {})
    \cup (IF g.channel_ptr THEN {"channel"} ELSE {})
    \cup (IF g.speech_stub THEN {"stub"} ELSE {})
    \cup (IF g.context # 0 THEN {"context"} ELSE {})
    \cup (IF g.last_result # NULLSTR THEN {"result"} ELSE {})

Alloc(l, ks) == [k \in Kinds |-> IF k \in ks THEN l[k] + 1 ELSE l[k]]

\* ast_free / delete of the pointers of kinds ks; a NULL pointer is skipped.
Free(l, g, ks) ==
    [k \in Kinds |-> IF k \in ks \cap Held(g) THEN l[k] - 1 ELSE l[k]]

NewStream(ctx) ==
    [log |-> <<>>, finished |-> 0, released |-> 0, inbound |-> <<>>,
     closed |-> FALSE, ctx |-> ctx, request |-> NoRequest]

(* ------------------------- engine configuration ------------------------ *)
\* google_engine_config_load(): defaults first, then the [general] keys
\* that are present and non-empty.
ConfigLoad(cfg) ==
    [initialized |-> TRUE,
     default_language_code |->
        IF cfg.present /\ ~ast_strlen_zero(cfg.lang) THEN cfg.lang ELSE "en-US",
     default_service_account_key_path |->
        IF cfg.present /\ ~ast_strlen_zero(cfg.key) THEN cfg.key ELSE NULLSTR,
     default_model |->
        IF cfg.present /\ ~ast_strlen_zero(cfg.model) THEN cfg.model
        ELSE "default",
     default_enable_automatic_punctuation |->
        IF cfg.present /\ ~ast_strlen_zero(cfg.punct) THEN ast_true(cfg.punct)
        ELSE FALSE]

EngineZero ==
    [initialized |-> FALSE, default_language_code |-> NULLSTR,
     default_service_account_key_path |-> NULLSTR, default_model |-> NULLSTR,
     default_enable_automatic_punctuation |-> FALSE]

\* The engine's callbacks are registered by load_module() after it has
\* loaded the configuration: the first callback sees a loaded engine.
Init ==
    /\ engine = ConfigLoad(CfgFile)
    /\ data = FALSE
    /\ gs = NoSession
    /\ state = "NOT_READY"
    /\ streams = <<>>
    /\ live = [k \in Kinds |-> 0]
    /\ ncreate = 0
    /\ last_is_final = FALSE
    /\ errored = FALSE
    /\ pc = "idle"
    /\ op = "init"
    /\ ret = 0
    /\ result = NoResult
    /\ calls = <<>>
    /\ got = <<>>

Returns(o, r, c) ==
    op' = o /\ ret' = r /\ calls' = c /\ result' = NoResult /\ got' = <<>>

\* Variant: a reload hands the new defaults to the Session that exists.
load_module_propagating(cfg) ==
    /\ pc = "idle"
    /\ ~engine.initialized
    /\ engine' = ConfigLoad(cfg)
    /\ Returns("load_module", 0, <<>>)
    /\ gs' = IF data
             THEN [gs EXCEPT
                     !.language_code = ConfigLoad(cfg).default_language_code,
                     !.model = ConfigLoad(cfg).default_model]
             ELSE gs
    /\ UNCHANGED <<data, state, streams, live, ncreate, last_is_final,
                   errored, pc>>

\* load_module(): loads the configuration before the engine is registered.
load_module(cfg) ==
    /\ pc = "idle"
    /\ ~engine.initialized
    /\ engine' = ConfigLoad(cfg)
    /\ Returns("load_module", 0, <<>>)
    /\ UNCHANGED <<data, gs, state, streams, live, ncreate, last_is_final,
                   errored, pc>>

\* unload_module(): the defaults are freed and the engine marked unloaded.
\* The freed pointers are never read again before google_engine_config_load
\* overwrites them, so they are shown as NULL.
unload_module ==
    /\ pc = "idle"
    /\ engine.initialized
    /\ engine' = EngineZero
    /\ Returns("unload_module", 0, <<>>)
    /\ UNCHANGED <<data, gs, state, streams, live, ncreate, last_is_final,
                   errored, pc>>

(* ------------------------------- create -------------------------------- *)
\* Credential resolution of google_recog_create: "ok" when creds is
\* non-null after the try/catch.  keyfile is what read_key_file returns,
\* jwt and dflt what the two gRPC credential factories do.
Creds(keypath, keyfile, jwt, dflt) ==
    LET fallback == IF dflt = "ok" THEN "ok" ELSE "null"
        first ==
            IF ~ast_strlen_zero(keypath)
            THEN IF keyfile # "" THEN jwt ELSE dflt
            ELSE dflt
    IN  IF first = "throw" THEN fallback
        ELSE IF first = "ok" THEN "ok" ELSE "null"

SampleRate(format) == IF format = 0 \/ format <= 0 THEN DefaultRate ELSE format

\* The google_speech_t after the defaults were copied (lines 119-152).
Copied(e, format) ==
    [NoSession EXCEPT
        !.name = TRUE,
        !.service_account_key_path = e.default_service_account_key_path,
        !.language_code =
            IF e.default_language_code # NULLSTR THEN e.default_language_code
            ELSE "en-US",
        !.model =
            IF e.default_model # NULLSTR THEN e.default_model ELSE "default",
        !.enable_automatic_punctuation =
            e.default_enable_automatic_punctuation,
        !.sample_rate_hertz = SampleRate(format)]

\* Variant: the failure paths forget the model string.
CreateFreed_nomodel(path) ==
    IF path = "fault" THEN {"channel", "stub", "name", "key", "lang",
                            "session"}
    ELSE {"name", "key", "lang", "session"}

\* What the failure paths of create() free: the strings and the object on
\* every path, the channel (and the stub, when set) on the fault path.
CreateFreed(path) ==
    IF path = "fault" THEN {"channel", "stub", "name", "key", "lang",
                            "model", "session"}
    ELSE {"name", "key", "lang", "model", "session"}

google_recog_create(format, cfg, keyfile, jwt, dflt, chan, stub) ==
    /\ pc = "idle"
    /\ ~data
    /\ ncreate < MaxCreates
    /\ LET e == IF engine.initialized THEN engine ELSE ConfigLoad(cfg)
           g0 == Copied(e, format)
           l0 == Alloc(live, Held(g0))
           creds == Creds(g0.service_account_key_path, keyfile, jwt, dflt)
       IN  /\ engine' = e
           /\ IF creds # "ok" \/ chan # "ok"
              THEN /\ live' = Free(l0, g0, CreateFreed("early"))
                   /\ data' = FALSE /\ gs' = NoSession
                   /\ ncreate' = ncreate
                   /\ Returns("create", -1, <<>>)
              ELSE LET g1 == [g0 EXCEPT !.channel_ptr = TRUE]
                       l1 == Alloc(l0, {"channel"})
                   IN  IF stub = "throw_stub" \/ stub = "throw_ctx"
                       THEN LET g2 == [g1 EXCEPT !.speech_stub =
                                                     (stub = "throw_ctx")]
                                l2 == Alloc(l1, Held(g2) \ Held(g1))
                            IN  /\ live' = Free(l2, g2, CreateFreed("fault"))
                                /\ data' = FALSE /\ gs' = NoSession
                                /\ ncreate' = ncreate
                                /\ Returns("create", -1, <<>>)
                       ELSE /\ gs' = [g1 EXCEPT !.speech_stub = TRUE,
                                                !.context = ncreate + 1]
                            /\ live' = Alloc(l1, {"stub", "context"})
                            /\ data' = TRUE
                            /\ ncreate' = ncreate + 1
                            /\ Returns("create", 0, <<>>)
    /\ errored' = FALSE
    /\ UNCHANGED <<state, streams, last_is_final, pc>>

(* -------------------------------- start -------------------------------- *)
\* What start() and write() return when they refuse the call (lines 376,
\* 448).
RejectedReturn == -1

\* Variant: start() without its guard.
StartRejected_unchecked == FALSE

\* The guard of google_recog_start (line 446).
StartRejected == ~data \/ ~gs.speech_stub \/ gs.context = 0

\* delete of the stream handle h: the handle is released (once more); the
\* call is over and whatever the remote had queued on it is gone.
Deleted(ss, h) ==
    [ss EXCEPT ![h].released = @ + 1, ![h].inbound = <<>>,
               ![h].closed = TRUE]

\* Variant: start() keeps the stream it replaces.
ReleaseOld_kept(ss, old) == ss

\* Lines 458-461: start() deletes the stream the Session still holds.
ReleaseOld(ss, old) == IF old # 0 THEN Deleted(ss, old) ELSE ss

\* Variant: a successful call puts its frame on the stream twice.
Logged_twice(log, k, w) ==
    IF w = "ok" THEN Append(Append(log, k), k) ELSE log

\* The log of a stream after the outbound call k ("config", "audio", "done")
\* with transport outcome w: a call that returned false or threw put nothing
\* on the stream.
Logged(log, k, w) == IF w = "ok" THEN Append(log, k) ELSE log

\* Variant: start() sends an audio request where the configuration belongs.
StartFrame_audio == "audio"

\* The frame google_recog_start writes on the stream it has just opened.
StartFrame == "config"

\* google_recog_start: open is the outcome of StreamingRecognize(), w of the
\* Write of the configuration request.
google_recog_start(open, w) ==
    /\ pc = "idle"
    /\ IF StartRejected
       THEN /\ Returns("start", RejectedReturn, <<>>)
            /\ UNCHANGED <<gs, state, streams, errored>>
       ELSE /\ Len(streams) < MaxStreams
            /\ LET old == gs.stream
                   \* line 460: the old stream is deleted, the field keeps
                   \* pointing at it until line 463 assigns
                   s1 == ReleaseOld(streams, old)
                   n == Len(streams) + 1
               IN  IF open = "throw"
                   THEN \* catch: the stale pointer is deleted once more
                        /\ streams' = IF old # 0 THEN Deleted(s1, old)
                                      ELSE s1
                        /\ gs' = [gs EXCEPT !.stream = 0]
                        /\ Returns("start", -1, <<"StreamingRecognize">>)
                        /\ UNCHANGED <<state, errored>>
                   ELSE LET s2 == Append(s1,
                                    [NewStream(gs.context) EXCEPT
                                        !.log = Logged(<<>>, StartFrame, w),
                                        !.request =
                                            IF w = "ok" THEN ConfigRequest(gs)
                                            ELSE NoRequest])
                        IN  CASE w = "ok" ->
                                   /\ streams' = s2
                                   /\ gs' = [gs EXCEPT !.stream = n]
                                   /\ state' = "READY"
                                   /\ Returns("start", 0,
                                         <<"StreamingRecognize", "Write">>)
                                   /\ UNCHANGED errored
                              [] w = "fail" ->
                                   \* Finish(), delete, stream = NULL
                                   /\ streams' = Deleted(
                                         [s2 EXCEPT ![n].finished = @ + 1,
                                                    ![n].closed = TRUE], n)
                                   /\ gs' = [gs EXCEPT !.stream = 0]
                                   /\ Returns("start", -1,
                                         <<"StreamingRecognize", "Write",
                                           "Finish">>)
                                   /\ errored' = TRUE
                                   /\ UNCHANGED state
                              [] w = "throw" ->
                                   \* catch: delete, stream = NULL
                                   /\ streams' = Deleted(s2, n)
                                   /\ gs' = [gs EXCEPT !.stream = 0]
                                   /\ Returns("start", -1,
                                         <<"StreamingRecognize", "Write">>)
                                   /\ UNCHANGED <<state, errored>>
    /\ UNCHANGED <<engine, data, live, ncreate, last_is_final, pc>>

(* -------------------------------- write -------------------------------- *)
\* Lines 409-423: last_result after the batch b was read.
StoreResult(old, b) ==
    IF b.results > 0 /\ b.alts > 0 THEN b.transcript ELSE old

Stores(b) == b.results > 0 /\ b.alts > 0

\* The guard of google_recog_write (line 374).
WriteRejected == ~data \/ gs.stream = 0

\* Variant: a final result makes the Session half-close its stream.
Consume_halfclose(str, b) ==
    IF b.results > 0 /\ b.alts > 0 /\ b.final
    THEN [str EXCEPT !.inbound = Tail(@), !.log = Append(@, "done")]
    ELSE [str EXCEPT !.inbound = Tail(@)]

\* The stream after Read() handed out the batch b (line 408): the batch is
\* taken off the inbound queue, nothing else happens to the stream.
Consume(str, b) == [str EXCEPT !.inbound = Tail(@)]

\* Effect of a Read() that returned the batch b on the stream s.
ReadBatch(base, s, b) ==
    /\ streams' = [base EXCEPT ![s] = Consume(@, b)]
    /\ gs' = [gs EXCEPT !.last_result = StoreResult(@, b)]
    /\ live' = IF Stores(b)
               THEN Alloc(Free(live, gs, {"result"}), {"result"})
               ELSE live
    /\ last_is_final' = IF Stores(b) THEN b.final ELSE last_is_final
    /\ state' = IF Stores(b) /\ b.final THEN "DONE" ELSE state
    /\ got' = <<b>>

\* Variant: a failed Write() leaves the host state as it was.
AfterFailedWrite_same(st) == st

\* Line 391: the host state after Write() returned false.
AfterFailedWrite(st) == "NOT_READY"

\* Variant: a Read() that reports the end of the stream is taken as an error.
AfterReadEnded_error(st) == "NOT_READY"

\* Line 424: the host state after Read() returned false.
AfterReadEnded(st) == st

\* Outcomes the transport allows for a Write on stream s: a stream the
\* remote has ended only fails.
WriteOutcomes(s) ==
    IF streams[s].closed THEN {"fail"} ELSE {"ok", "fail", "throw"}

google_recog_write(w, rthrow) ==
    /\ pc = "idle"
    /\ IF WriteRejected
       THEN /\ Returns("write", RejectedReturn, <<>>)
            /\ UNCHANGED <<gs, state, streams, live, last_is_final, errored,
                           pc>>
       ELSE LET s == gs.stream
                logged == [streams EXCEPT
                             ![s].log = Logged(@, "audio", w)]
            IN  /\ Len(streams[s].log) < MaxLog
                /\ w \in WriteOutcomes(s)
                /\ CASE w = "fail" ->
                          /\ streams' = [logged EXCEPT ![s].closed = TRUE]
                          /\ state' = AfterFailedWrite(state)
                          /\ errored' = TRUE
                          /\ Returns("write", -1, <<"Write">>)
                          /\ UNCHANGED <<gs, live, last_is_final, pc>>
                     [] w = "throw" ->
                          /\ streams' = logged
                          /\ Returns("write", -1, <<"Write">>)
                          /\ UNCHANGED <<gs, state, live, last_is_final,
                                         errored, pc>>
                     [] w = "ok" /\ rthrow ->
                          /\ streams' = logged
                          /\ Returns("write", -1, <<"Write", "Read">>)
                          /\ UNCHANGED <<gs, state, live, last_is_final,
                                         errored, pc>>
                     [] w = "ok" /\ ~rthrow /\ streams[s].inbound # <<>> ->
                          /\ ReadBatch(logged, s, Head(streams[s].inbound))
                          /\ op' = "write" /\ ret' = 0 /\ result' = NoResult
                          /\ calls' = <<"Write", "Read">>
                          /\ UNCHANGED <<errored, pc>>
                     [] w = "ok" /\ ~rthrow /\ streams[s].inbound = <<>>
                          /\ streams[s].closed ->
                          /\ streams' = logged
                          /\ state' = AfterReadEnded(state)
                          /\ Returns("write", 0, <<"Write", "Read">>)
                          /\ UNCHANGED <<gs, live, last_is_final, errored, pc>>
                     [] w = "ok" /\ ~rthrow /\ streams[s].inbound = <<>>
                          /\ ~streams[s].closed ->
                          \* Read() blocks: nothing to read, stream open
                          /\ streams' = logged
                          /\ pc' = "reading"
                          /\ op' = "write" /\ calls' = <<"Write", "Read">>
                          /\ result' = NoResult /\ got' = <<>>
                          /\ UNCHANGED <<gs, state, live, last_is_final,
                                         errored, ret>>
    /\ UNCHANGED <<engine, data, ncreate>>

\* The blocked Read() of google_recog_write returns: a batch has arrived,
\* the remote has ended the stream, or the call faults.
google_recog_write_resume(rthrow) ==
    /\ pc = "reading"
    /\ LET s == gs.stream
       IN  /\ streams[s].inbound # <<>> \/ streams[s].closed
           /\ CASE rthrow ->
                     /\ ret' = -1
                     /\ UNCHANGED <<gs, state, streams, live, last_is_final,
                                    got>>
                [] ~rthrow /\ streams[s].inbound # <<>> ->
                     /\ ReadBatch(streams, s, Head(streams[s].inbound))
                     /\ ret' = 0
                [] ~rthrow /\ streams[s].inbound = <<>> ->
                     /\ ret' = 0
                     /\ state' = AfterReadEnded(state)
                     /\ UNCHANGED <<gs, streams, live, last_is_final, got>>
    /\ pc' = "idle"
    /\ UNCHANGED <<engine, data, ncreate, errored, op, result, calls>>

(* -------------------------------- stop --------------------------------- *)
\* Variant: stop() reports a failed half-close to the caller.
StopReturn_hard(d) == IF d = "ok" THEN 0 ELSE -1

\* Return value of google_recog_stop for the WritesDone() outcome d.
StopReturn(d) == 0

google_recog_stop(d) ==
    /\ pc = "idle"
    /\ IF ~data
       THEN /\ Returns("stop", 0, <<>>)
            /\ UNCHANGED <<state, streams>>
       ELSE /\ IF gs.stream # 0
               THEN /\ Len(streams[gs.stream].log) < MaxLog
                    /\ streams' = [streams EXCEPT ![gs.stream].log =
                                      Logged(@, "done", d)]
                    /\ Returns("stop", StopReturn(d), <<"WritesDone">>)
               ELSE /\ Returns("stop", 0, <<>>)
                    /\ UNCHANGED streams
            /\ state' = "NOT_READY"
    /\ UNCHANGED <<engine, data, gs, live, ncreate, last_is_final, errored,
                   pc>>

(* --------------------------------- get --------------------------------- *)
\* Variant: get() tests the pointer only.
NothingToGet_null(g) == g.last_result = NULLSTR

\* Line 549: get() has nothing to hand out.
NothingToGet(g) == ast_strlen_zero(g.last_result)

\* Variant: get() leaves the string in the slot.
Consumed_kept(g) == g

\* Lines 560-561: the slot after its string was handed to the caller.
Consumed(g) == [g EXCEPT !.last_result = NULLSTR]

google_recog_get ==
    /\ pc = "idle"
    /\ op' = "get" /\ ret' = 0 /\ calls' = <<>> /\ got' = <<>>
    /\ IF ~data \/ NothingToGet(gs)
       THEN /\ result' = NoResult
            /\ UNCHANGED <<gs, live, last_is_final>>
       ELSE /\ result' = [text |-> gs.last_result, score |-> PlaceholderScore]
            /\ gs' = Consumed(gs)
            \* the string now belongs to the caller
            /\ live' = Free(live, gs, {"result"})
            /\ last_is_final' = FALSE
    /\ UNCHANGED <<engine, data, state, streams, ncreate, errored, pc>>

(* ------------------------------- destroy ------------------------------- *)
\* What google_recog_destroy frees after the stream (lines 282-297).
DestroyFreed == {"context", "stub", "name", "result", "key", "lang", "session"}

\* The stream is deleted only when Finish() returned (line 274).
ReleasedByDestroy(f) == f # "throw"

\* Variant: destroy() without its guard.
NothingToDestroy_unchecked == FALSE

\* Line 255: destroy() has no Session to release.
NothingToDestroy == ~data

\* Lines 262-300 once Finish() has returned (f: "ok", "notok") or thrown.
DestroyBody(f) ==
    /\ streams' =
          IF gs.stream = 0 THEN streams
          ELSE LET fin == [streams EXCEPT ![gs.stream].finished = @ + 1]
               IN  IF ReleasedByDestroy(f) THEN Deleted(fin, gs.stream)
                   ELSE fin
    /\ live' = Free(live, gs, DestroyFreed)
    /\ gs' = NoSession
    /\ data' = FALSE
    /\ last_is_final' = FALSE
    /\ errored' = FALSE
    /\ ret' = 0
    /\ op' = "destroy"
    /\ result' = NoResult
    /\ got' = <<>>
    /\ calls' = IF gs.stream # 0 THEN <<"Finish">> ELSE <<>>
    /\ pc' = "idle"

google_recog_destroy(f) ==
    /\ pc = "idle"
    /\ CASE NothingToDestroy ->
              /\ Returns("destroy", 0, <<>>)
              /\ UNCHANGED <<data, gs, streams, live, last_is_final,
                             errored, pc>>
         [] ~NothingToDestroy /\ gs.stream # 0
                /\ ~streams[gs.stream].closed ->
              \* Finish() blocks until the remote ends the stream
              /\ pc' = "finishing"
              /\ op' = "destroy" /\ calls' = <<"Finish">>
              /\ result' = NoResult /\ got' = <<>>
              /\ UNCHANGED <<data, gs, streams, live, last_is_final,
                             errored, ret>>
         [] OTHER -> DestroyBody(f)
    /\ UNCHANGED <<engine, state, ncreate>>

google_recog_destroy_resume(f) ==
    /\ pc = "finishing"
    /\ streams[gs.stream].closed
    /\ DestroyBody(f)
    /\ UNCHANGED <<engine, state, ncreate>>

(* ------------------------------ settings ------------------------------- *)
\* google_recog_change: refused without a Session; otherwise the name and
\* the value are logged and 0 is returned.
google_recog_change ==
    /\ pc = "idle"
    /\ Returns("change", IF ~data THEN -1 ELSE 0, <<>>)
    /\ UNCHANGED <<engine, data, gs, state, streams, live, ncreate,
                   last_is_final, errored, pc>>

\* google_recog_get_settings: -1 with or without a Session; the buffer is
\* not written.
google_recog_get_settings ==
    /\ pc = "idle"
    /\ Returns("get_settings", -1, <<>>)
    /\ UNCHANGED <<engine, data, gs, state, streams, live, ncreate,
                   last_is_final, errored, pc>>

\* google_recog_change_results_type: -1 with or without a Session.
google_recog_change_results_type ==
    /\ pc = "idle"
    /\ Returns("change_results_type", -1, <<>>)
    /\ UNCHANGED <<engine, data, gs, state, streams, live, ncreate,
                   last_is_final, errored, pc>>

(* ----------------------------- environment ----------------------------- *)
\* The remote sends a result batch on the Session's stream.
RemoteEmit(b) ==
    /\ data /\ gs.stream # 0
    /\ ~streams[gs.stream].closed
    /\ Len(streams[gs.stream].inbound) < MaxInbound
    /\ streams' = [streams EXCEPT ![gs.stream].inbound = Append(@, b)]
    /\ UNCHANGED <<engine, data, gs, state, live, ncreate, last_is_final,
                   errored, pc, op, ret, result, calls, got>>

\* The remote ends the stream (its status becomes available).
RemoteClose ==
    /\ data /\ gs.stream # 0
    /\ ~streams[gs.stream].closed
    /\ streams' = [streams EXCEPT ![gs.stream].closed = TRUE]
    /\ UNCHANGED <<engine, data, gs, state, live, ncreate, last_is_final,
                   errored, pc, op, ret, result, calls, got>>

Outcomes == {"ok", "fail", "throw"}

\* The Session's callbacks and the remote, with the engine configuration
\* loaded once (by the first create()).
Next ==
    \/ \E format \in FormatRates, cfg \in CfgFiles, keyfile \in {"", "json"},
          jwt \in {"ok", "null", "throw"}, dflt \in {"ok", "null", "throw"},
          chan \in {"ok", "null"}, stub \in {"ok", "throw_stub", "throw_ctx"} :
          \* the file is read only by the first create()
          /\ engine.initialized => cfg = NoCfgFile
          /\ google_recog_create(format, cfg, keyfile, jwt, dflt, chan, stub)
    \/ \E open \in {"ok", "throw"}, w \in Outcomes : google_recog_start(open, w)
    \/ \E w \in Outcomes, rthrow \in BOOLEAN : google_recog_write(w, rthrow)
    \/ \E rthrow \in BOOLEAN : google_recog_write_resume(rthrow)
    \/ \E d \in Outcomes : google_recog_stop(d)
    \/ google_recog_get
    \/ \E f \in {"ok", "notok", "throw"} : google_recog_destroy(f)
    \/ \E f \in {"ok", "notok", "throw"} : google_recog_destroy_resume(f)
    \/ \E b \in Batches : RemoteEmit(b)
    \/ RemoteClose

Spec == Init /\ [][Next]_vars

\* The caller's own code makes progress; the remote owes nothing.
FairSpec ==
    /\ Spec
    /\ WF_vars(\E rthrow \in BOOLEAN : google_recog_write_resume(rthrow))
    /\ WF_vars(\E f \in {"ok", "notok", "throw"} :
                  google_recog_destroy_resume(f))

\* The control plane: the module is unloaded and loaded again while a
\* Session exists, the Session's streams are started and stopped, and the
\* host makes its settings calls.  No audio is pushed.
ControlNext ==
    \/ \E cfg \in CfgFiles : load_module(cfg)
    \/ unload_module
    \/ \E format \in FormatRates, cfg \in CfgFiles :
          /\ engine.initialized => cfg = NoCfgFile
          /\ google_recog_create(format, cfg, "json", "ok", "ok", "ok", "ok")
    \/ \E w \in Outcomes : google_recog_start("ok", w)
    \/ \E d \in Outcomes : google_recog_stop(d)
    \/ \E f \in {"ok", "notok", "throw"} : google_recog_destroy(f)
    \/ \E f \in {"ok", "notok", "throw"} : google_recog_destroy_resume(f)
    \/ google_recog_change
    \/ google_recog_get_settings
    \/ google_recog_change_results_type
    \/ RemoteClose

ControlSpec == Init /\ [][ControlNext]_vars

TypeOK ==
    /\ data \in BOOLEAN
    /\ state \in {"NOT_READY", "READY", "WAIT", "DONE"}
    /\ pc \in {"idle", "reading", "finishing"}
    /\ ret \in {0, -1}
    /\ ncreate \in 0..MaxCreates
    /\ Len(streams) <= MaxStreams
    /\ gs.stream \in 0..Len(streams)
    /\ gs.last_result \in Texts \cup {NULLSTR}

(* ------------------------------- claims -------------------------------- *)
SessionVars ==
    <<engine, data, gs, state, streams, live, ncreate, last_is_final,
      errored, pc>>

Handles == 1..Len(streams)

\* The step is a get() call (the remote's steps leave op as it is but
\* change streams).
GetStep == op' = "get" /\ UNCHANGED streams

\* C1: on every stream the Session opened, the configuration frame is the
\* first frame and occurs once, so every audio frame comes after it; a
\* stream start() handed to the Session carries it.
C1_ConfigFirstOnce ==
    \A h \in Handles :
        LET log == streams[h].log
        IN  /\ log # <<>> => log[1] = "config"
            /\ \A j \in 2..Len(log) : log[j] # "config"
            /\ (data /\ gs.stream = h) => log # <<>>

\* A start() retried after a failed handshake, then audio on the new stream.
C1_Witness ==
    /\ Len(streams) = 2
    /\ streams[1].log = <<>> /\ streams[1].released = 1
    /\ data /\ gs.stream = 2
    /\ Len(streams[2].log) >= 2 /\ streams[2].log[2] = "audio"

\* The last callback was a pushAudio whose Read() returned a final result.
FinalDelivered ==
    /\ op = "write" /\ pc = "idle" /\ ret = 0
    /\ got # <<>> /\ Stores(got[1]) /\ got[1].final

C3_FinalNotDropped ==
    [][(data /\ last_is_final /\ ~NothingToGet(gs)) =>
          (gs'.last_result = gs.last_result \/ op' \in {"get", "destroy"})]_vars

\* C4: when destroy() has returned, every stream start() opened has been
\* released exactly once.
C4_StreamsReleasedOnce ==
    (op = "destroy" /\ pc = "idle") =>
        \A h \in Handles : streams[h].released = 1

\* C5: when destroy() has returned, nothing the Session acquired is still
\* allocated.
C5_AllReleased ==
    (op = "destroy" /\ pc = "idle") => \A k \in Kinds : live[k] = 0

\* C6: once a Write() of the Session has failed, no start() or pushAudio()
\* returns success and no stream is opened.
C6_ErrorTerminal ==
    [][(errored /\ op' \in {"start", "write"}) =>
          (ret' = -1 /\ Len(streams') = Len(streams))]_vars

\* C7: no stream carries an audio frame after its half-close signal, and a
\* pushAudio after the half-close does not return success.
C7_NoAudioAfterHalfClose ==
    /\ \A h \in Handles :
          \A j \in 1..Len(streams[h].log) :
              \A k \in (j + 1)..Len(streams[h].log) :
                  ~(streams[h].log[j] = "done" /\ streams[h].log[k] = "audio")
    /\ (op = "write" /\ ret = 0 /\ pc = "idle" /\ data /\ gs.stream # 0) =>
          \A j \in 1..Len(streams[gs.stream].log) :
              streams[gs.stream].log[j] # "done"

\* C8: start() without a Session and pushAudio() without a stream return
\* the error value and change nothing, so the call in the right order is
\* still possible and succeeds.
C8_OutOfOrderRejected ==
    [][/\ (~data /\ op' = "start") =>
              /\ ret' = -1 /\ calls' = <<>>
              /\ UNCHANGED SessionVars
       /\ (WriteRejected /\ op' = "write") =>
              /\ ret' = -1 /\ calls' = <<>>
              /\ UNCHANGED SessionVars
              /\ (data /\ Len(streams) < MaxStreams) =>
                    ENABLED (google_recog_start("ok", "ok") /\ ret' = 0)]_vars

\* pushAudio() was refused on a created Session that has no stream.
C8_Witness ==
    op = "write" /\ ret = -1 /\ calls = <<>> /\ data /\ gs.stream = 0

\* C9: stop() returns 0, is not inside a blocking call when it returns,
\* makes no Read() or Finish(), and leaves an existing Session NOT_READY
\* (the STOPPING of the design), whatever WritesDone() did.
C9_StopOk ==
    op = "stop" =>
        /\ ret = 0
        /\ pc = "idle"
        /\ data => state = "NOT_READY"
        /\ \A i \in 1..Len(calls) : calls[i] = "WritesDone"

\* stop() on an open stream whose WritesDone() failed.
C9_Witness ==
    /\ op = "stop" /\ calls = <<"WritesDone">>
    /\ data /\ gs.stream # 0
    /\ \A j \in 1..Len(streams[gs.stream].log) :
          streams[gs.stream].log[j] # "done"
    /\ state = "NOT_READY"

\* C10: a callback that is inside a blocking call eventually returns.
C10_CallsReturn == (pc # "idle") ~> (pc = "idle")

\* C11: destroy() on a Session that holds no state object (its create()
\* failed, or an earlier destroy() completed) returns 0, makes no call on
\* any stream and releases nothing: every allocation count and every
\* stream stay as they were.
C11_DestroyIdempotent ==
    [][(~data /\ pc = "idle" /\ op' = "destroy") =>
           /\ ret' = 0 /\ calls' = <<>>
           /\ UNCHANGED SessionVars]_vars

\* A destroy() with nothing to release, after a destroy() that had finished
\* and deleted a stream audio or configuration had been written on.
C11_Witness ==
    /\ ~data /\ op = "destroy" /\ ret = 0 /\ calls = <<>>
    /\ \E h \in Handles :
           /\ streams[h].log # <<>>
           /\ streams[h].finished = 1 /\ streams[h].released = 1

\* C12: get() on a Session whose result slot is empty returns no result,
\* does not wait, and leaves the slot, the host state and the stream as
\* they were; so does the get() after it.
C12_EmptyGet ==
    [][(pc = "idle" /\ (~data \/ ast_strlen_zero(gs.last_result)) /\ GetStep)
          => /\ result' = NoResult
             /\ pc' = "idle" /\ calls' = <<>>
             /\ UNCHANGED SessionVars]_vars

\* A get() that found the slot of a streaming Session empty.
C12_Witness ==
    /\ op = "get" /\ result = NoResult /\ pc = "idle"
    /\ data /\ gs.stream # 0 /\ streams[gs.stream].log # <<>>

\* C13: of the streams opened with the Session's context, at most one is
\* not released, and it is the one the Session points at; the stream the
\* Session points at is never a released one.
C13_OneOpenStream ==
    data =>
        /\ \A h \in Handles :
               (streams[h].ctx = gs.context /\ streams[h].released = 0)
                   => h = gs.stream
        /\ gs.stream # 0 => streams[gs.stream].released = 0

\* start() was called while the Session held a stream with frames on it:
\* that stream is released and the Session holds the new one.
C13_Witness ==
    /\ data /\ op = "start" /\ ret = 0
    /\ Len(streams) >= 2 /\ gs.stream = Len(streams)
    /\ \E h \in Handles :
           /\ h # gs.stream /\ streams[h].ctx = gs.context
           /\ streams[h].log # <<>> /\ streams[h].finished = 0
           /\ streams[h].released = 1

\* The frames and the release record of the stream the Session holds are
\* the same after the step.
StreamKept ==
    /\ data' /\ gs'.stream = gs.stream
    /\ streams'[gs.stream].log = streams[gs.stream].log
    /\ streams'[gs.stream].finished = streams[gs.stream].finished
    /\ streams'[gs.stream].released = streams[gs.stream].released

C15_ReadEnded ==
    [][(/\ data /\ gs.stream # 0
        /\ streams[gs.stream].inbound = <<>>
        /\ \/ google_recog_write_resume(FALSE)
           \/ google_recog_write("ok", FALSE) /\ streams[gs.stream].closed)
          => /\ ret' = 0 /\ pc' = "idle"
             /\ got' = <<>>
             /\ state' = state /\ errored' = errored
             /\ gs' = gs /\ last_is_final' = last_is_final]_vars

\* A write() wrote its frame, found the stream ended by the remote, and
\* returned 0 with the transcript of an earlier batch still in the slot.
C15_Witness ==
    /\ op = "write" /\ pc = "idle" /\ ret = 0 /\ got = <<>>
    /\ calls = <<"Write", "Read">>
    /\ data /\ gs.stream # 0 /\ streams[gs.stream].closed
    /\ streams[gs.stream].log = <<"config", "audio", "audio">>
    /\ state = "READY" /\ ~errored /\ gs.last_result = "hello"

\* C16: a start() whose Write() of the configuration request returns false
\* returns -1, has finished and deleted the stream it opened, leaves the
\* Session without a stream, and puts the host state to NOT_READY (the
\* state the code uses for an error).
C16_StartFailure ==
    [][(~StartRejected /\ google_recog_start("ok", "fail")) =>
           /\ ret' = -1
           /\ gs'.stream = 0
           /\ streams'[Len(streams')].finished = 1
           /\ streams'[Len(streams')].released = 1
           /\ state' = "NOT_READY"]_vars

\* C17: the result get() returns for a transcript a write() has just
\* stored carries that transcript, and as its score the confidence the
\* remote supplied with it (in hundredths), the placeholder score only
\* when the remote supplied none.
C17_Confidence ==
    [][(/\ op = "write" /\ pc = "idle" /\ ret = 0
        /\ got # <<>> /\ Stores(got[1]) /\ got[1].transcript # ""
        /\ GetStep)
          => /\ result'.text = got[1].transcript
             /\ result'.score = IF got[1].confidence # 0
                                THEN got[1].confidence
                                ELSE PlaceholderScore]_vars

\* The configuration a Session stores.
SessionConfig(g) ==
    <<g.language_code, g.model, g.enable_automatic_punctuation,
      g.service_account_key_path, g.sample_rate_hertz>>

\* C18: create() stores the engine defaults as they are at that moment;
\* while the Session exists no step, a reload of the engine configuration
\* included, changes what it stores; and the configuration request a
\* start() sends carries the stored values.
C18_ConfigCopied ==
    [][/\ (~data /\ data') =>
              /\ gs'.language_code = engine'.default_language_code
              /\ gs'.model = engine'.default_model
              /\ gs'.enable_automatic_punctuation =
                     engine'.default_enable_automatic_punctuation
              /\ gs'.service_account_key_path =
                     engine'.default_service_account_key_path
       /\ (data /\ data') => SessionConfig(gs') = SessionConfig(gs)
       /\ (data /\ op' = "start" /\ ret' = 0 /\ Len(streams') > Len(streams))
              => LET r == streams'[gs'.stream].request
                 IN  /\ r.language_code = gs.language_code
                     /\ r.model = IF gs.model = "default" THEN ""
                                  ELSE gs.model
                     /\ r.enable_automatic_punctuation =
                            gs.enable_automatic_punctuation
                     /\ r.sample_rate_hertz = gs.sample_rate_hertz]_vars

\* A start() succeeded after the engine configuration had been replaced:
\* the request carries the language the Session was created with, not the
\* engine's present default.
C18_Witness ==
    /\ data /\ op = "start" /\ ret = 0 /\ gs.stream # 0
    /\ engine.initialized
    /\ engine.default_language_code # gs.language_code
    /\ streams[gs.stream].request.language_code = gs.language_code
    /\ streams[gs.stream].request.model = gs.model
    /\ engine.default_model # gs.model

\* The step is one of the three settings calls.
SettingsStep ==
    /\ pc = "idle"
    /\ op' \in {"change", "get_settings", "change_results_type"}
    /\ UNCHANGED streams

\* C19: each of change(), get_settings() and change_results_type() on a
\* created Session returns the failure value -1 and leaves the Session's
\* configuration, host state, stream and result slot as they were.
C19_SettingsUnsupported ==
    [][(data /\ SettingsStep) =>
           /\ ret' = -1
           /\ UNCHANGED SessionVars]_vars

\* The step is a Read() of write() handing out a batch: the inbound queue
\* of the Session's stream gets shorter and the batch is recorded.
ReadStep ==
    /\ data /\ gs.stream # 0
    /\ op' = "write" /\ pc' = "idle" /\ got' # <<>>
    /\ Len(streams'[gs.stream].inbound) < Len(streams[gs.stream].inbound)

\* The batch the step has read is stored and final.
ReadFinal == ReadStep /\ Stores(got'[1]) /\ got'[1].final

\* The stream the Session holds is neither half-closed, finished nor
\* released by the step (at most the call's audio frame is added to it),
\* and the Session keeps it.
StreamStaysOpen ==
    /\ data' /\ gs'.stream = gs.stream
    /\ streams'[gs.stream].finished = 0
    /\ streams'[gs.stream].released = 0
    /\ streams'[gs.stream].closed = streams[gs.stream].closed
    /\ streams'[gs.stream].log \in
           {streams[gs.stream].log, Append(streams[gs.stream].log, "audio")}

\* A write() on the Session's open stream that puts one more audio frame
\* on it.
WritesAudio ==
    /\ google_recog_write("ok", FALSE)
    /\ Len(streams'[gs.stream].log) = Len(streams[gs.stream].log) + 1

C21_BatchStored ==
    [][ReadStep =>
           IF got'[1].results > 0 /\ got'[1].alts > 0
           THEN /\ gs'.last_result = got'[1].transcript
                /\ (state' = "DONE") = got'[1].final
           ELSE /\ gs'.last_result = gs.last_result
                /\ state' = state]_vars

\* The step takes nothing off the inbound queue of the Session's stream,
\* or takes its oldest batch and hands that batch to the call.
AtMostOneBatch ==
    LET q == streams[gs.stream].inbound
        q2 == streams'[gs.stream].inbound
    IN  \/ q2 = q /\ got' = <<>>
        \/ q # <<>> /\ q2 = Tail(q) /\ got' = <<Head(q)>>

C24_FinishBeforeRelease ==
    \A h \in Handles :
        streams[h].released >= 1 => streams[h].finished = 1

\* C25: no two streams have been opened with the same stream context.
C25_ContextOnce ==
    \A h1 \in Handles : \A h2 \in Handles :
        h1 # h2 => streams[h1].ctx # streams[h2].ctx

\* C26: get() never hands out a result whose text is the empty string: on
\* a slot holding "" it returns no result and leaves the slot and the host
\* state as they are, also when the state is DONE for a final result with
\* an empty transcript.
C26_NoEmptyText ==
    [][/\ result'.text # ""
       /\ (data /\ pc = "idle" /\ gs.last_result = "" /\ GetStep)
             => /\ result' = NoResult
                /\ gs' = gs /\ state' = state
                /\ last_is_final' = last_is_final]_vars

\* A final result with an empty transcript has set the state to DONE and a
\* get() has returned no result, the empty string still in the slot.
C26_Witness ==
    /\ data /\ op = "get" /\ result = NoResult
    /\ gs.last_result = "" /\ state = "DONE" /\ last_is_final

====
